---- MODULE Spec2Model ----
(***************************************************************************)
(* A model of camera_utils.py: the Camera object (intrinsics K, D, shape   *)
(* and a rigid-transform pose held as quaternion + translation), the       *)
(* DepthCamera ray mesh and reconstruct, check_visibility and              *)
(* get_object_bbox.                                                        *)
(*                                                                         *)
(* Python names are kept.  numpy arrays and Quaternion objects are mutable *)
(* cells of a heap (kArr, dArr, qObj, tArr); an attribute that is bound to *)
(* an existing array holds the cell's reference, so that aliasing is       *)
(* visible.  Real numbers are exact rationals <<num, den>>, den > 0.       *)
(***************************************************************************)
EXTENDS Integers, Sequences, FiniteSets, TLC

VARIABLES
    kArr,      \* heap of 3x3 calibration arrays: reference -> matrix
    dArr,      \* heap of distortion vectors: reference -> 4-vector
    qObj,      \* heap of Quaternion objects: reference -> xyzw
    tArr,      \* heap of translation arrays: reference -> 3-vector
    cams,      \* Camera objects, in the order built: a sequence of attribute records
    pc,        \* per camera: "idle", or "141" inside set_pose after line 140
    arg,       \* per camera: the pose argument of the running set_pose
    lastSet,   \* history: the (quat, tvec) cells of the last pose fully set
    call,      \* history, per camera: the (quat, tvec) cells before / requested by the last set_pose
    dcam,      \* the DepthCamera object, if built
    recon,     \* outcome of the last DepthCamera.reconstruct call
    bboxIn,    \* inputs of get_object_bbox (camera, cloud, subsample, minima)
    bboxRes,   \* scale -> outcome of get_object_bbox on bboxIn
    visCam,    \* the camera handed to check_visibility
    vis        \* points and outcome of the check_visibility call

camVars   == <<kArr, dArr, qObj, tArr, cams, pc, arg, lastSet, call>>
depthVars == <<dcam, recon>>
bboxVars  == <<bboxIn, bboxRes>>
visVars   == <<visCam, vis>>
vars      == <<camVars, depthVars, bboxVars, visVars>>

\* An optional value is a set with at most one element.
None == {}
Some(x) == {x}
The(s) == CHOOSE x \in s : TRUE

Built(c) == c \in 1..Len(cams)

\* an array given by an index expression, built once as a sequence of values
Array(f) == f \o << >>

(***************************************************************************)
(* Vectors and matrices (numpy / numpy.matlib), over the integers.         *)
(***************************************************************************)
RECURSIVE SumTo(_, _)
SumTo(f, n) == IF n = 0 THEN 0 ELSE f[n] + SumTo(f, n - 1)

Dot(a, b) == SumTo([k \in 1..Len(a) |-> a[k] * b[k]], Len(a))

Column(B, j) == [k \in 1..Len(B) |-> B[k][j]]

\* numpy.matrix product A * B
MatMul(A, B) ==
    [i \in 1..Len(A) |-> [j \in 1..Len(B[1]) |-> Dot(A[i], Column(B, j))]]

\* construct_K: eye(3) with the focal lengths and the focal centre set
construct_K(fx, fy, cx, cy) ==
    << <<fx, 0, cx>>, <<0, fy, cy>>, <<0, 0, 1>> >>

\* in-place write K[i, j] = v on a matrix value
SetEntry(M, i, j, v) == [M EXCEPT ![i][j] = v]

(***************************************************************************)
(* Real numbers (Python floats) as exact rationals <<num, den>>, den > 0.  *)
(* Arithmetic keeps the denominator positive; Norm brings a number to      *)
(* lowest terms, the form in which it is stored and compared with =.       *)
(* NaN is <<0, 0>>; every comparison with it is false.                     *)
(***************************************************************************)
Abs(n) == IF n < 0 THEN -n ELSE n

RECURSIVE GCD(_, _)
GCD(a, b) == IF b = 0 THEN a ELSE GCD(b, a % b)

Rat(n, d) == IF d < 0 THEN <<-n, -d>> ELSE <<n, d>>
Norm(a) ==
    LET g == GCD(Abs(a[1]), a[2]) IN IF g = 0 THEN a ELSE <<a[1] \div g, a[2] \div g>>

R0(n) == <<n, 1>>                               \* the float of an integer
RAdd(a, b) == <<a[1]*b[2] + b[1]*a[2], a[2]*b[2]>>
RSub(a, b) == <<a[1]*b[2] - b[1]*a[2], a[2]*b[2]>>
RMul(a, b) == <<a[1]*b[1], a[2]*b[2]>>
RDiv(a, b) == Rat(a[1]*b[2], a[2]*b[1])         \* b # 0
REq(a, b)  == a[1]*b[2] = b[1]*a[2]
RLt(a, b)  == a[1]*b[2] < b[1]*a[2]
RLe(a, b)  == a[1]*b[2] <= b[1]*a[2]
RMin(a, b) == IF RLe(a, b) THEN a ELSE b
RMax(a, b) == IF RLe(a, b) THEN b ELSE a
NaN        == <<0, 0>>
IsNaN(a)   == a[2] = 0
\* float comparisons a >= b, a <= b, a < b: false when either side is NaN
FGe(a, b)  == ~IsNaN(a) /\ ~IsNaN(b) /\ RLe(b, a)
FLe(a, b)  == ~IsNaN(a) /\ ~IsNaN(b) /\ RLe(a, b)
FLt(a, b)  == ~IsNaN(a) /\ ~IsNaN(b) /\ RLt(a, b)
\* int(x): truncation toward zero
RInt(a)    == IF a[1] >= 0 THEN a[1] \div a[2] ELSE -((-a[1]) \div a[2])

(***************************************************************************)
(* RigidTransform / Quaternion (bot_geometry.rigid_transform).             *)
(***************************************************************************)
\* Quaternion.to_homogeneous_matrix()[:3,:3] for a unit quaternion xyzw
QuatToR(q) ==
    LET x == q[1] y == q[2] z == q[3] w == q[4] IN
    << << 1 - 2*(y*y + z*z), 2*(x*y - z*w),     2*(x*z + y*w)     >>,
       << 2*(x*y + z*w),     1 - 2*(x*x + z*z), 2*(y*z - x*w)     >>,
       << 2*(x*z - y*w),     2*(y*z + x*w),     1 - 2*(x*x + y*y) >> >>

\* The unit quaternions of the model: identity and the half turns about x, y, z
Quats == { <<0,0,0,1>>, <<1,0,0,0>>, <<0,1,0,0>>, <<0,0,1,0>> }

\* RigidTransform.from_Rt(R, t).quat.to_xyzw(): the quaternion of rotation R
QuatFromR(R) == CHOOSE q \in Quats : QuatToR(q) = R

\* RigidTransform.to_homogeneous_matrix()[:3]: the 3x4 matrix [R | t]
Rt3x4(q, t) ==
    LET R == QuatToR(q) IN [i \in 1..3 |-> <<R[i][1], R[i][2], R[i][3], t[i]>>]

(***************************************************************************)
(* Bounds and input sets of the Camera model.                              *)
(***************************************************************************)
MaxCams  == 2      \* Camera objects built
NumPoses == 1      \* RigidTransform pose objects the caller holds
MaxVal   == 2      \* values written into arrays range over 1..MaxVal

Cams     == 1..MaxCams
Poses    == 1..NumPoses
\* one more pose-like object exposes .quat but no .tvec (set_pose takes any object)
QuatOnly == NumPoses + 1
PoseObjs == Poses \cup {QuatOnly}
HasTvec(p) == p \in Poses

KRefs == {"K_depth", "K1"}             \* kinect_v1_params.K_depth, and an array the caller holds
DRefs == {"Ddefault", "D1"}            \* the default-argument array of line 92, and a caller's
\* Quaternion / tvec cells: one per pose object, one owned per camera
PoseQ(p) == p
PoseT(p) == p
OwnQ(c)  == QuatOnly + c
OwnT(c)  == QuatOnly + c
QRefs == 1..(QuatOnly + MaxCams)
TRefs == 1..(QuatOnly + MaxCams)

Vals     == 1..MaxVal
TVals    == { <<0, 0, 0>> }
RVals    == { QuatToR(<<0, 0, 0, 1>>) }
ShapeVal == <<4, 6>>

(***************************************************************************)
(* Camera (CameraIntrinsic + CameraExtrinsic).                             *)
(***************************************************************************)
\* CameraIntrinsic.__init__: self.K = npm.mat(K) binds the array passed (no copy
\* is made of an ndarray / matrix), self.D = D binds D, the scalars are read out.
CameraIntrinsic_init(k, d, shape) ==
    [K |-> k, D |-> d,
     cx |-> kArr[k][1][3], cy |-> kArr[k][2][3],
     fx |-> kArr[k][1][1], fy |-> kArr[k][2][2],
     shape |-> shape]

\* Camera.__init__(K, R, t, D, shape): the intrinsic part, and the extrinsic part
\* built by RigidTransform.__init__ from fresh xyzw / tvec values.
Camera_init(c, k, R, t, d, shape) ==
    /\ c = Len(cams) + 1
    /\ cams' = Append(cams,
                  [f \in {"K", "D", "cx", "cy", "fx", "fy", "shape", "quat", "tvec"} |->
                     IF f = "quat" THEN OwnQ(c)
                     ELSE IF f = "tvec" THEN OwnT(c)
                     ELSE CameraIntrinsic_init(k, d, shape)[f]])
    /\ qObj' = [qObj EXCEPT ![OwnQ(c)] = QuatFromR(R)]
    /\ tArr' = [tArr EXCEPT ![OwnT(c)] = t]
    /\ lastSet' = [lastSet EXCEPT ![c] = <<OwnQ(c), OwnT(c)>>]
    /\ UNCHANGED <<kArr, dArr, pc, arg, call, depthVars, bboxVars, visVars>>

\* CameraExtrinsic.R and .t of camera c
CamR(c) == QuatToR(qObj[cams[c].quat])
CamT(c) == tArr[cams[c].tvec]

\* Camera.P: self.K * self.to_homogeneous_matrix()[:3]
P(c) == MatMul(kArr[cams[c].K], Rt3x4(qObj[cams[c].quat], tArr[cams[c].tvec]))

\* K [R | t] written out entry by entry, for a calibration matrix K
KRt(K, R, t) ==
    [i \in 1..3 |-> [j \in 1..4 |->
        IF j <= 3 THEN K[i][1]*R[1][j] + K[i][2]*R[2][j] + K[i][3]*R[3][j]
        ELSE K[i][1]*t[1] + K[i][2]*t[2] + K[i][3]*t[3]]]

\* K [R | t] of camera c's K and of the pose held in cells <<q, t>>
PFrom(c, cells) == KRt(kArr[cams[c].K], QuatToR(qObj[cells[1]]), tArr[cells[2]])

\* Camera(K, R, t) / Camera(K, R, t, D=D, shape=...) called by the user
NewCamera(c, k, R, t, d) ==
    Camera_init(c, k, R, t, d, ShapeVal)

\* Camera.from_intrinsics_extrinsics(i, e) on two existing cameras
from_intrinsics_extrinsics(c, i, e) ==
    /\ Built(i) /\ Built(e)
    /\ Camera_init(c, cams[i].K, CamR(e), CamT(e), cams[i].D, cams[i].shape)

\* Camera.set_pose, line 140: self.quat = pose.quat
set_pose_140(c, p) ==
    /\ Built(c) /\ pc[c] = "idle"
    /\ call' = [call EXCEPT ![c] =
                  Some([old |-> <<cams[c].quat, cams[c].tvec>>,
                        new |-> <<PoseQ(p), PoseT(p)>>])]
    /\ cams' = [cams EXCEPT ![c].quat = PoseQ(p)]
    /\ pc' = [pc EXCEPT ![c] = "141"]
    /\ arg' = [arg EXCEPT ![c] = p]
    /\ UNCHANGED <<kArr, dArr, qObj, tArr, lastSet, depthVars, bboxVars, visVars>>

\* Camera.set_pose, line 141: self.tvec = pose.tvec; reading pose.tvec raises
\* AttributeError when the object has no tvec, and the call ends there.
\* (The history of a call that completed is dropped: the pose is then lastSet.)
set_pose_141(c) ==
    /\ Built(c) /\ pc[c] = "141"
    /\ IF HasTvec(arg[c])
         THEN /\ cams' = [cams EXCEPT ![c].tvec = PoseT(arg[c])]
              /\ lastSet' = [lastSet EXCEPT ![c] = <<PoseQ(arg[c]), PoseT(arg[c])>>]
              /\ call' = [call EXCEPT ![c] = None]
         ELSE UNCHANGED <<cams, lastSet, call>>
    /\ pc' = [pc EXCEPT ![c] = "idle"]
    /\ arg' = [arg EXCEPT ![c] = 1]
    /\ UNCHANGED <<kArr, dArr, qObj, tArr, depthVars, bboxVars, visVars>>

(***************************************************************************)
(* The caller's in-place writes to objects it passed to a Camera.          *)
(***************************************************************************)
\* K[0,0] = v on a calibration array
MutateK(k, v) ==
    /\ kArr[k][1][1] # v
    /\ kArr' = [kArr EXCEPT ![k] = SetEntry(kArr[k], 1, 1, v)]
    /\ UNCHANGED <<dArr, qObj, tArr, cams, pc, arg, lastSet, call, depthVars, bboxVars, visVars>>

\* D[0] = v on a distortion array (camera.D[0] = v reaches the same cell)
MutateD(d, v) ==
    /\ dArr[d][1] # v
    /\ dArr' = [dArr EXCEPT ![d][1] = v]
    /\ UNCHANGED <<kArr, qObj, tArr, cams, pc, arg, lastSet, call, depthVars, bboxVars, visVars>>

\* pose.tvec[0] = v on a pose object
MutatePoseT(p, v) ==
    /\ HasTvec(p)
    /\ tArr[PoseT(p)][1] # v
    /\ tArr' = [tArr EXCEPT ![PoseT(p)][1] = v]
    /\ UNCHANGED <<kArr, dArr, qObj, cams, pc, arg, lastSet, call, depthVars, bboxVars, visVars>>

CallerWrite ==
    \/ \E k \in KRefs, v \in Vals : MutateK(k, v)
    \/ \E d \in DRefs, v \in 0..1 : MutateD(d, v)
    \/ \E p \in Poses, v \in 0..1 : MutatePoseT(p, v)

(***************************************************************************)
(* Claims about Camera.                                                    *)
(***************************************************************************)
\* The (rotation, translation) pair camera c holds, as the cells it is bound to
Pair(c) == <<cams[c].quat, cams[c].tvec>>

\* What a reader of camera c sees: K, D, R, t and P
View(c) ==
    [K |-> kArr[cams[c].K], D |-> dArr[cams[c].D], R |-> CamR(c), t |-> CamT(c), P |-> P(c)]

\* C1: after construction and after any sequence of set_pose calls (the camera
\* is between calls), a read of P equals K [R | t] for the camera's K and the
\* rotation and translation of the most recently set pose (the constructor's
\* before any set_pose); never a matrix derived from an earlier pose.
C1_PFromLastSetPose ==
    \A c \in 1..Len(cams) :
        pc[c] = "idle" => P(c) = PFrom(c, lastSet[c])

\* C2: set_pose replaces rotation and translation atomically: when a call ends,
\* by returning or by raising, the camera holds the pair it held before the call
\* or the pair of the pose passed to it, never the new rotation with the old
\* translation; a reader between calls sees no partial update.
C2_SetPoseAtomic ==
    [][\A c \in 1..Len(cams) :
          (pc[c] = "141" /\ pc'[c] = "idle")
          => Pair(c)' \in {The(call[c]).old, The(call[c]).new}]_vars

\* C3: a Camera owns copies: an in-place write by the caller to a K array, a D
\* vector or a pose object it passed in changes no camera's K, D, R, t or P.
C3_CameraOwnsCopies ==
    [][CallerWrite => \A c \in 1..Len(cams) : View(c)' = View(c)]_vars

(***************************************************************************)
(* DepthCamera.                                                            *)
(***************************************************************************)
MaxDim   == 2      \* image height and width range over 1..MaxDim
MaxSkip  == 2      \* skip ranges over 1..MaxSkip
MaxFocal == 2      \* fx, fy range over 1..MaxFocal
MaxDepth == 2      \* constant depth maps take the values 0..MaxDepth

\* x[::k] of a sequence: the elements at 0-based indices 0, k, 2k, ...
Stride(x, k) == Array([n \in 1..((Len(x) + k - 1) \div k) |-> x[(n - 1) * k + 1]])

\* np.meshgrid(xs, ys): two len(ys) x len(xs) grids, xs along rows, ys along columns
meshgrid(xs, ys) ==
    [xs |-> [i \in 1..Len(ys) |-> xs], ys |-> [i \in 1..Len(ys) |-> [j \in 1..Len(xs) |-> ys[i]]]]

\* ndarray.shape of a 2-D array held as a sequence of rows
shape2(a) == <<Len(a), IF Len(a) = 0 THEN 0 ELSE Len(a[1])>>

\* DepthCamera._build_mesh(shape): both ray grids are scaled by fx_inv
build_mesh(fx, cx, cy, shape, skip) ==
    LET H == shape[1]
        W == shape[2]
        fx_inv == RDiv(R0(1), R0(fx))
        xs == Stride([j \in 1..W |-> Norm(RMul(RSub(R0(j - 1), R0(cx)), fx_inv))], skip)
        ys == Stride([i \in 1..H |-> Norm(RMul(RSub(R0(i - 1), R0(cy)), fx_inv))], skip)
    IN  meshgrid(xs, ys)

\* DepthCamera.__init__(K, shape, skip)
DepthCamera_init(K, shape, skip) ==
    LET fx == K[1][1] cx == K[1][3] cy == K[2][3]
        mesh == build_mesh(fx, cx, cy, shape, skip)
    IN  [K |-> K, fx |-> fx, fy |-> K[2][2], cx |-> cx, cy |-> cy,
         shape |-> shape, skip |-> skip, xs |-> mesh.xs, ys |-> mesh.ys]

\* np.dstack([xs * depth, ys * depth, depth]) on grids of one shape
dstack3(xs, ys, depth) ==
    [i \in 1..Len(depth) |-> [j \in 1..Len(depth[i]) |->
        << Norm(RMul(xs[i][j], R0(depth[i][j]))), Norm(RMul(ys[i][j], R0(depth[i][j]))),
           R0(depth[i][j]) >>]]

\* reconstruct without its assert: the products over the pixels both grids have
reconstruct_unchecked(cam, depth) ==
    LET h == IF Len(depth) < Len(cam.xs) THEN Len(depth) ELSE Len(cam.xs)
        w == IF Len(depth[1]) < Len(cam.xs[1]) THEN Len(depth[1]) ELSE Len(cam.xs[1])
    IN  [raised |-> FALSE,
         value |-> dstack3(cam.xs, cam.ys, [i \in 1..h |-> [j \in 1..w |-> depth[i][j]]])]

\* DepthCamera.reconstruct(depth): the assert raises on a shape mismatch
reconstruct(cam, depth) ==
    IF shape2(depth) # shape2(cam.xs)
      THEN [raised |-> TRUE, value |-> << >>]
      ELSE [raised |-> FALSE, value |-> dstack3(cam.xs, cam.ys, depth)]

DepthKs   == { construct_K(fx, fy, cx, cy) :
                 fx \in 1..MaxFocal, fy \in 1..MaxFocal, cx \in 0..1, cy \in 0..1 }
Shapes    == (1..MaxDim) \X (1..MaxDim)
\* depth arrays of every shape: the constant ones, and one with a different
\* depth at every pixel
DepthMaps ==
    { [i \in 1..h |-> [j \in 1..w |-> d]] : h \in 1..MaxDim, w \in 1..MaxDim, d \in 0..MaxDepth }
    \cup { [i \in 1..h |-> [j \in 1..w |-> (i - 1) * w + j]] : h \in 1..MaxDim, w \in 1..MaxDim }

\* DepthCamera(K, shape, skip) built by the caller
NewDepthCamera(K, shape, skip) ==
    /\ dcam = None
    /\ dcam' = Some(DepthCamera_init(K, shape, skip))
    /\ recon' = None
    /\ UNCHANGED <<camVars, bboxVars, visVars>>

\* one call cam.reconstruct(depth), after any earlier calls
Reconstruct(depth) ==
    /\ dcam # None
    /\ recon' = Some([depth |-> depth, before |-> The(dcam), out |-> reconstruct(The(dcam), depth)])
    /\ UNCHANGED <<dcam, camVars, bboxVars, visVars>>

NextDepth ==
    \/ /\ dcam = None
       /\ \E K \in DepthKs, shape \in Shapes, skip \in 1..MaxSkip :
             NewDepthCamera(K, shape, skip)
    \/ \E depth \in DepthMaps : Reconstruct(depth)

\* ceil(n / k)
CeilDiv(n, k) == (n + k - 1) \div k

\* C4: for a depth array of the mesh shape (ceil(H/skip), ceil(W/skip)),
\* reconstruct succeeds and out[i, j] =
\* (((j*skip - cx)/fx) * d, ((i*skip - cy)/fy) * d, d) with d = depth[i, j],
\* for every fx, fy > 0, equal or not (i, j count from 0).
C4_ReconstructRays ==
    \A r \in recon :
        LET cam == r.before
            d   == r.depth
        IN  shape2(d) = <<CeilDiv(cam.shape[1], cam.skip), CeilDiv(cam.shape[2], cam.skip)>>
            => /\ ~r.out.raised
               /\ shape2(r.out.value) = shape2(d)
               /\ \A i \in 1..Len(d) : \A j \in 1..Len(d[i]) :
                     r.out.value[i][j] =
                       << Norm(RMul(RDiv(RSub(R0((j - 1) * cam.skip), R0(cam.cx)), R0(cam.fx)), R0(d[i][j]))),
                          Norm(RMul(RDiv(RSub(R0((i - 1) * cam.skip), R0(cam.cy)), R0(cam.fy)), R0(d[i][j]))),
                          R0(d[i][j]) >>

\* C5: reconstruct on a depth array whose shape differs from the mesh shape
\* fails with an error, returns no result, and leaves the DepthCamera (mesh,
\* shape, skip) as it was.
C5_ShapeMismatchFails ==
    \A r \in recon :
        shape2(r.depth) # shape2(r.before.xs)
        => /\ r.out.raised
           /\ r.out.value = << >>
           /\ dcam = Some(r.before)

\* a shape-mismatched reconstruct has been called and has raised
C5_Witness ==
    \E r \in recon : shape2(r.depth) # shape2(r.before.xs) /\ r.out.raised

(***************************************************************************)
(* get_object_bbox.                                                        *)
(***************************************************************************)
MaxPts == 2        \* points in a cloud: 1..MaxPts
MaxMin == 1        \* min_height and min_width range over 0..MaxMin

\* RigidTransform.__mul__ on a point (line 242, camera * pts): R X + t
Transform(R, t, X) == <<Dot(R[1], X) + t[1], Dot(R[2], X) + t[2], Dot(R[3], X) + t[3]>>

\* Camera.project on one point: cv2.projectPoints with zero distortion, which
\* divides by z and leaves x, y undivided when z = 0
project(cam, X) ==
    LET Xc == Transform(cam.R, cam.t, X)
        z  == IF Xc[3] = 0 THEN 1 ELSE Xc[3]
    IN  << RAdd(RMul(R0(cam.fx), Rat(Xc[1], z)), R0(cam.cx)),
           RAdd(RMul(R0(cam.fy), Rat(Xc[2], z)), R0(cam.cy)) >>

\* the sequence x with the element at index k removed
Without(x, k) == Array([n \in 1..(Len(x) - 1) |-> IF n < k THEN x[n] ELSE x[n + 1]])

\* np.min / np.max of a non-empty sequence of floats
RECURSIVE np_min(_)
np_min(x) == IF Len(x) = 1 THEN x[1] ELSE RMin(x[1], np_min(Tail(x)))
RECURSIVE np_max(_)
np_max(x) == IF Len(x) = 1 THEN x[1] ELSE RMax(x[1], np_max(Tail(x)))

\* the sequence sorted in ascending order
RECURSIVE Sorted(_)
Sorted(x) ==
    IF Len(x) = 0 THEN << >>
    ELSE LET k == CHOOSE k \in 1..Len(x) : \A n \in 1..Len(x) : RLe(x[k], x[n])
         IN  <<x[k]>> \o Sorted(Without(x, k))

\* np.median of an empty array, taken to be 0
np_median_zero(x) ==
    IF Len(x) = 0 THEN R0(0)
    ELSE LET s == Sorted(x)
             n == Len(x)
         IN  IF n % 2 = 1 THEN s[(n + 1) \div 2]
             ELSE RDiv(RAdd(s[n \div 2], s[n \div 2 + 1]), R0(2))

\* np.median: the middle element, the mean of the two middle ones, NaN if empty
np_median(x) ==
    IF Len(x) = 0 THEN NaN
    ELSE LET s == Sorted(x)
             n == Len(x)
         IN  IF n % 2 = 1 THEN s[(n + 1) \div 2]
             ELSE RDiv(RAdd(s[n \div 2], s[n \div 2 + 1]), R0(2))

\* the subsequence of x at the indices where keep is true
RECURSIVE Filter(_, _)
Filter(x, keep) ==
    IF Len(x) = 0 THEN << >>
    ELSE (IF keep[1] THEN <<x[1]>> ELSE << >>) \o Filter(Tail(x), Tail(keep))

\* line 230-231: the mask of projected points within the image
valid_mask(pts2d, shape) ==
    Array([n \in 1..Len(pts2d) |->
        /\ FGe(pts2d[n][1], R0(0)) /\ FLt(pts2d[n][1], R0(shape[2]))
        /\ FGe(pts2d[n][2], R0(0)) /\ FLt(pts2d[n][2], R0(shape[1]))])

\* lines 226-227: the min-max bounds clipped to the image, as ints
minmax_box(pts2d, shape) ==
    LET us == Array([n \in 1..Len(pts2d) |-> pts2d[n][1]])
        vs == Array([n \in 1..Len(pts2d) |-> pts2d[n][2]])
    IN  [x0 |-> RInt(RMax(R0(0), np_min(us))), x1 |-> RInt(RMin(R0(shape[2] - 1), np_max(us))),
         y0 |-> RInt(RMax(R0(0), np_min(vs))), y1 |-> RInt(RMin(R0(shape[1] - 1), np_max(vs)))]

\* line 236-237 with the size test on the height alone
center_and_size_ok_height_only(xmed, ymed, b, shape, min_height, min_width) ==
    /\ FGe(xmed, R0(0)) /\ FGe(ymed, R0(0))
    /\ FLe(xmed, R0(shape[2])) /\ FLt(ymed, R0(shape[1]))
    /\ (b.y1 - b.y0) >= min_height

\* line 236-237: the median centre is in the image and the box is large enough
center_and_size_ok(xmed, ymed, b, shape, min_height, min_width) ==
    /\ FGe(xmed, R0(0)) /\ FGe(ymed, R0(0))
    /\ FLe(xmed, R0(shape[2])) /\ FLt(ymed, R0(shape[1]))
    /\ (b.y1 - b.y0) >= min_height /\ (b.x1 - b.x0) >= min_width

\* lines 254-256 with the half-extents subtracted where they are added
scale_box_inward(b, scale, shape) ==
    LET w2 == RDiv(RMul(RSub(scale, R0(1)), R0(b.x1 - b.x0)), R0(2))
        h2 == RDiv(RMul(RSub(scale, R0(1)), R0(b.y1 - b.y0)), R0(2))
    IN  [x0 |-> RInt(RMax(R0(0), RAdd(R0(b.x0), w2))),
         x1 |-> RInt(RMin(RSub(R0(b.x1), w2), R0(shape[2] - 1))),
         y0 |-> RInt(RMax(R0(0), RAdd(R0(b.y0), h2))),
         y1 |-> RInt(RMin(RSub(R0(b.y1), h2), R0(shape[1] - 1)))]

\* lines 254-256 without the max(0, .) / min(., size - 1) clipping
scale_box_unclipped(b, scale, shape) ==
    LET w2 == RDiv(RMul(RSub(scale, R0(1)), R0(b.x1 - b.x0)), R0(2))
        h2 == RDiv(RMul(RSub(scale, R0(1)), R0(b.y1 - b.y0)), R0(2))
    IN  [x0 |-> RInt(RSub(R0(b.x0), w2)), x1 |-> RInt(RAdd(R0(b.x1), w2)),
         y0 |-> RInt(RSub(R0(b.y0), h2)), y1 |-> RInt(RAdd(R0(b.y1), h2))]

\* lines 254-256: the box grown by (scale - 1) / 2 of its size on each side
scale_box(b, scale, shape) ==
    LET w2 == RDiv(RMul(RSub(scale, R0(1)), R0(b.x1 - b.x0)), R0(2))
        h2 == RDiv(RMul(RSub(scale, R0(1)), R0(b.y1 - b.y0)), R0(2))
    IN  [x0 |-> RInt(RMax(R0(0), RSub(R0(b.x0), w2))),
         x1 |-> RInt(RMin(RAdd(R0(b.x1), w2), R0(shape[2] - 1))),
         y0 |-> RInt(RMax(R0(0), RSub(R0(b.y0), h2))),
         y1 |-> RInt(RMin(RAdd(R0(b.y1), h2), R0(shape[1] - 1)))]

NoneTriple == [kind |-> "none", pts |-> << >>, box |-> << >>, depth |-> NaN]

\* get_object_bbox(camera, pts, subsample, scale, min_height, min_width)
get_object_bbox(camera, pts, subsample, scale, min_height, min_width) ==
    LET sub   == Stride(pts, subsample)
        pts2d == Array([n \in 1..Len(sub) |-> project(camera, sub[n])])
        b     == minmax_box(pts2d, camera.shape)
        vpts  == Filter(pts2d, valid_mask(pts2d, camera.shape))
        xmed  == np_median(Array([n \in 1..Len(vpts) |-> vpts[n][1]]))
        ymed  == np_median(Array([n \in 1..Len(vpts) |-> vpts[n][2]]))
        depth == np_median(Array([n \in 1..Len(sub) |->
                              R0(Transform(camera.R, camera.t, sub[n])[3])]))
        sb    == IF ~REq(scale, R0(1)) THEN scale_box(b, scale, camera.shape) ELSE b
    IN  IF center_and_size_ok(xmed, ymed, b, camera.shape, min_height, min_width)
          THEN IF FLt(depth, R0(0))
                 THEN NoneTriple
                 ELSE [kind |-> "box",
                       pts |-> [n \in 1..Len(vpts) |-> <<RInt(vpts[n][1]), RInt(vpts[n][2])>>],
                       box |-> <<[left |-> sb.x0, right |-> sb.x1, top |-> sb.y0, bottom |-> sb.y1]>>,
                       depth |-> Norm(depth)]
          ELSE NoneTriple

\* Inputs: a 3x3 image with the principal point at its centre pixel, focal
\* length 1 or 2, the camera at the identity pose; four points on and around
\* the axis in front of the camera, and two points behind it.
BBoxCams ==
    { [fx |-> f, fy |-> f, cx |-> 1, cy |-> 1, shape |-> <<3, 3>>,
       R |-> QuatToR(<<0, 0, 0, 1>>), t |-> <<0, 0, 0>>] : f \in {1, 2} }
Points == { <<-1, -1, 1>>, <<0, 0, 1>>, <<1, 0, 1>>, <<1, -1, 1>>, <<0, 0, -1>>, <<1, -1, -1>> }
Clouds == UNION { [1..n -> Points] : n \in 1..MaxPts }
Scales == { <<-1, 1>>, <<0, 1>>, <<1, 2>>, <<1, 1>>, <<2, 1>> }

\* the caller fixes a camera, a cloud and the keyword arguments other than scale
SetupBBox(camera, pts, subsample, min_height, min_width) ==
    /\ bboxIn = None
    /\ bboxIn' = Some([camera |-> camera, pts |-> pts, subsample |-> subsample,
                        min_height |-> min_height, min_width |-> min_width])
    /\ UNCHANGED <<bboxRes, camVars, depthVars, visVars>>

\* get_object_bbox is called on them with a scale
CallBBox(scale) ==
    /\ bboxIn # None
    /\ LET in == The(bboxIn) IN
         bboxRes' = Some([scale |-> scale,
                          out |-> get_object_bbox(in.camera, in.pts, in.subsample, scale,
                                                  in.min_height, in.min_width)])
    /\ UNCHANGED <<bboxIn, camVars, depthVars, visVars>>

NextBBox ==
    \/ /\ bboxIn = None
       /\ \E camera \in BBoxCams, pts \in Clouds, subsample \in 1..2,
              min_height \in 0..MaxMin, min_width \in 0..MaxMin :
             SetupBBox(camera, pts, subsample, min_height, min_width)
    \/ \E scale \in Scales : CallBBox(scale)

(***************************************************************************)
(* Claims about get_object_bbox.  They are stated on the inputs: the       *)
(* projected subsampled cloud, the points of it within the image, the      *)
(* clipped min/max box and the camera-frame depths.                        *)
(***************************************************************************)
Projected(in) ==
    LET sub == Stride(in.pts, in.subsample)
    IN  Array([n \in 1..Len(sub) |-> project(in.camera, sub[n])])

InImage(p, shape) ==
    /\ RLe(R0(0), p[1]) /\ RLt(p[1], R0(shape[2]))
    /\ RLe(R0(0), p[2]) /\ RLt(p[2], R0(shape[1]))

\* the indices of the projected points that lie within the image
Inside(in) ==
    LET p == Projected(in) IN { n \in 1..Len(p) : InImage(p[n], in.camera.shape) }

\* twice the median of the values v[n], n \in I (I non-empty): the sum of the
\* least and the greatest m among them such that at least half of the values
\* are <= m and at least half are >= m
TwiceMedian(v, I) ==
    LET half(n) == /\ 2 * Cardinality({i \in I : RLe(v[i], v[n])}) >= Cardinality(I)
                   /\ 2 * Cardinality({i \in I : RLe(v[n], v[i])}) >= Cardinality(I)
        mids == { n \in I : half(n) }
        lo   == CHOOSE a \in mids : \A b \in mids : RLe(v[a], v[b])
        hi   == CHOOSE a \in mids : \A b \in mids : RLe(v[b], v[a])
    IN  RAdd(v[lo], v[hi])

\* the median of the in-bounds projected points is within the image: there
\* are such points, and the median of each coordinate is within the image
MedianWithinImage(in) ==
    LET p == Projected(in)
        I == { n \in 1..Len(p) : InImage(p[n], in.camera.shape) }
        med(k) == RDiv(TwiceMedian(Array([n \in 1..Len(p) |-> p[n][k]]), I), R0(2))
    IN  I # {} /\ InImage(<<med(1), med(2)>>, in.camera.shape)

\* the median of the camera-frame depths of the subsampled points is negative
MedianDepthNegative(in) ==
    LET sub == Stride(in.pts, in.subsample)
        z   == Array([n \in 1..Len(sub) |->
                        R0(Transform(in.camera.R, in.camera.t, sub[n])[3])])
    IN  RLt(TwiceMedian(z, 1..Len(sub)), R0(0))

\* the min/max box of the projected points, clipped to the image
ClippedBox(in) == minmax_box(Projected(in), in.camera.shape)

Unusable(in) ==
    LET box == ClippedBox(in)
    IN  \/ ~MedianWithinImage(in)
        \/ box.y1 - box.y0 < in.min_height
        \/ box.x1 - box.x0 < in.min_width
        \/ MedianDepthNegative(in)

\* C6: for every non-empty subsampled cloud get_object_bbox returns the none
\* triple, not an error, exactly when the median of the in-bounds projected
\* points is not within the image (so whenever every projected point is outside
\* it), or the clipped min/max box is lower than min_height or narrower than
\* min_width, or the median depth is negative; otherwise (points, box, depth).
C6_NoneTripleExactlyWhenUnusable ==
    \A in \in bboxIn :
        bboxRes # None =>
            LET unusable == Unusable(in)
                inside   == Inside(in)
            IN  \A r \in bboxRes :
                  /\ r.out.kind \in {"none", "box"}
                  /\ (r.out.kind = "none") <=> unusable
                  /\ inside = {} => r.out = NoneTriple
                  /\ r.out.kind = "box" => /\ Len(r.out.box) = 1 /\ ~IsNaN(r.out.depth)
                                            /\ Len(r.out.pts) = Cardinality(inside)

\* a cloud all of whose projected points are outside the image got the none
\* triple although its clipped box is large enough and its depth positive
C6_Witness ==
    \E in \in bboxIn : \E r \in bboxRes :
        /\ Inside(in) = {} /\ r.out = NoneTriple
        /\ ClippedBox(in).y1 - ClippedBox(in).y0 >= in.min_height
        /\ ClippedBox(in).x1 - ClippedBox(in).x0 >= in.min_width
        /\ ~MedianDepthNegative(in)

MeetsMinSize(in, box) ==
    /\ box.bottom - box.top >= in.min_height
    /\ box.right - box.left >= in.min_width

\* C7 as stated: whenever a box is returned, the returned box meets the minimum
\* size (bottom - top >= min_height, right - left >= min_width), for every scale.
C7_ReturnedBoxMeetsMinSize ==
    \A in \in bboxIn : \A r \in bboxRes :
        r.out.kind = "box" => MeetsMinSize(in, r.out.box[1])

\* C7 amended: whenever a box is returned for a scale >= 1, the returned box
\* meets the minimum size.
C7_ReturnedBoxMeetsMinSizeScaleGe1 ==
    \A in \in bboxIn : \A r \in bboxRes :
        (r.out.kind = "box" /\ RLe(R0(1), r.scale)) => MeetsMinSize(in, r.out.box[1])

\* a box was returned for a scale > 1 with a positive minimum width
C7_Witness ==
    \E in \in bboxIn : \E r \in bboxRes :
        r.out.kind = "box" /\ RLt(R0(1), r.scale) /\ in.min_width > 0 /\ in.min_height > 0

WithinImage(in, box) ==
    /\ 0 <= box.left /\ box.left <= box.right /\ box.right <= in.camera.shape[2] - 1
    /\ 0 <= box.top /\ box.top <= box.bottom /\ box.bottom <= in.camera.shape[1] - 1

\* C8 as stated: whenever a box is returned, for every scale factor, equal to 1
\* or not, 0 <= left <= right <= W-1 and 0 <= top <= bottom <= H-1.
C8_BoxWithinImage ==
    \A in \in bboxIn : \A r \in bboxRes :
        r.out.kind = "box" => WithinImage(in, r.out.box[1])

\* C8 amended: the same for every scale factor >= 0.
C8_BoxWithinImageScaleGe0 ==
    \A in \in bboxIn : \A r \in bboxRes :
        (r.out.kind = "box" /\ RLe(R0(0), r.scale)) => WithinImage(in, r.out.box[1])

\* a box grown by a scale > 1 beyond the right image border was cut at it
C8_Witness ==
    \E in \in bboxIn : \E r \in bboxRes :
        LET b == ClippedBox(in)
            grown == RAdd(R0(b.x1), RDiv(RMul(RSub(r.scale, R0(1)), R0(b.x1 - b.x0)), R0(2)))
        IN  /\ r.out.kind = "box" /\ RLt(R0(1), r.scale)
            /\ RLt(R0(in.camera.shape[2] - 1), grown)
            /\ r.out.box[1].right = in.camera.shape[2] - 1

Area(box) == (box.right - box.left) * (box.bottom - box.top)

\* C9: for one camera and one cloud for which a box is returned, the area of
\* the returned box is non-decreasing in scale: of two calls with scales
\* 0 < s1 <= s2 (either may be 1) the second box is at least as large.
C9_AreaMonotoneInScale ==
    [][\A r1 \in bboxRes : \A r2 \in bboxRes' :
          (bboxIn' = bboxIn /\ r1.out.kind = "box" /\ r2.out.kind = "box")
          => /\ (RLt(R0(0), r1.scale) /\ RLe(r1.scale, r2.scale))
                  => Area(r1.out.box[1]) <= Area(r2.out.box[1])
             /\ (RLt(R0(0), r2.scale) /\ RLe(r2.scale, r1.scale))
                  => Area(r2.out.box[1]) <= Area(r1.out.box[1])]_vars

\* a call with a scale > 1 returned a box larger than the unscaled one
C9_Witness ==
    \E in \in bboxIn : \E r \in bboxRes :
        /\ r.out.kind = "box" /\ RLt(R0(1), r.scale)
        /\ Area(r.out.box[1]) >
             (ClippedBox(in).x1 - ClippedBox(in).x0) * (ClippedBox(in).y1 - ClippedBox(in).y0)
        /\ (ClippedBox(in).x1 - ClippedBox(in).x0) * (ClippedBox(in).y1 - ClippedBox(in).y0) > 0

(***************************************************************************)
(* check_visibility (lines 205-220) and CameraIntrinsic.fov (lines 53-58). *)
(* Angles are kept exactly: an angle 2*atan(m) is kept as the rational m,  *)
(* the tangent of its half; an angle arccos(a / sqrt(n)) is kept as the    *)
(* pair [num |-> a, sq |-> n].  The viewing direction is a unit vector, so *)
(* the cosine of the angle to v is (lookat . v) / sqrt(v . v).             *)
(***************************************************************************)
MaxCoord == 1      \* point coordinates range over -MaxCoord..MaxCoord
MaxVisPts == 2     \* points handed to one check_visibility call: 1..MaxVisPts
MaxVisFocal == 2   \* fx, fy, cx, cy of the camera range over 1..MaxVisFocal

\* CameraIntrinsic.fov: [arctan(cx / fx), arctan(cy / fy)] * 2
fov(camera) == << Norm(Rat(camera.cx, camera.fx)), Norm(Rat(camera.cy, camera.fy)) >>

\* theta < fov for theta = arccos(num / sqrt(sq)) in [0, pi] and
\* fov = 2*atan(p/q) in [0, pi): cos(theta) > (q^2 - p^2) / (q^2 + p^2).
\* For v = 0 the cosine is 0/0, theta is nan and the comparison is false.
AngleLess(theta, m) ==
    LET cn == m[2] * m[2] - m[1] * m[1]
        cd == m[2] * m[2] + m[1] * m[1]
        a  == theta.num
    IN  IF theta.sq = 0 THEN FALSE
        ELSE IF cn >= 0
             THEN a > 0 /\ a * a * cd * cd > cn * cn * theta.sq
             ELSE a >= 0 \/ a * a * cd * cd < cn * cn * theta.sq

\* check_visibility(camera, pts): thetas < np.max(camera.fov)
check_visibility(camera, pts) ==
    LET fovmax == RMax(fov(camera)[1], fov(camera)[2])
        lookat == Column(camera.R, 3)
    IN  Array([n \in 1..Len(pts) |->
           LET v == <<pts[n][1] - camera.t[1], pts[n][2] - camera.t[2], pts[n][3] - camera.t[3]>>
           IN  AngleLess([num |-> Dot(lookat, v), sq |-> Dot(v, v)], fovmax)])

VisCams ==
    { [fx |-> fx, fy |-> fy, cx |-> cx, cy |-> cy, R |-> QuatToR(q), t |-> t] :
        fx \in 1..MaxVisFocal, fy \in 1..MaxVisFocal,
        cx \in 1..MaxVisFocal, cy \in 1..MaxVisFocal,
        q \in {<<0,0,0,1>>, <<1,0,0,0>>}, t \in {<<0,0,0>>, <<1,0,0>>} }
VisPoints == { <<x, y, z>> : x \in -MaxCoord..MaxCoord, y \in -MaxCoord..MaxCoord,
                              z \in -MaxCoord..MaxCoord }
VisClouds(n) == [1..n -> VisPoints]

\* the caller builds the camera
SetupVis(camera) ==
    /\ visCam = None
    /\ visCam' = Some(camera)
    /\ UNCHANGED <<vis, camVars, depthVars, bboxVars>>

\* one call check_visibility(camera, pts)
CheckVisibility(pts) ==
    /\ visCam # None /\ vis = None
    /\ vis' = Some([pts |-> pts, out |-> check_visibility(The(visCam), pts)])
    /\ UNCHANGED <<visCam, camVars, depthVars, bboxVars>>

NextVis ==
    \/ \E camera \in VisCams : SetupVis(camera)
    \/ \E n \in 1..MaxVisPts : \E pts \in VisClouds(n) : CheckVisibility(pts)

\* theta < atan(p/q), the half of the angle 2*atan(p/q):
\* cos(theta) > q / sqrt(p^2 + q^2)
LessThanHalfAngle(theta, m) ==
    /\ theta.sq # 0 /\ theta.num > 0
    /\ theta.num * theta.num * (m[1] * m[1] + m[2] * m[2]) > m[2] * m[2] * theta.sq

\* C10: check_visibility marks a point visible exactly when the angle between
\* the viewing direction (third column of R) and the vector from the camera
\* centre to the point is less than the half-angle of the larger per-axis
\* field of view, max(atan(cx/fx), atan(cy/fy)).
C10_VisibleIffWithinHalfAngle ==
    \A camera \in visCam : \A r \in vis : \A n \in 1..Len(r.pts) :
        LET v == [i \in 1..3 |-> r.pts[n][i] - camera.t[i]]
            theta == [num |-> Dot(Column(camera.R, 3), v), sq |-> Dot(v, v)]
            half == RMax(Rat(camera.cx, camera.fx), Rat(camera.cy, camera.fy))
        IN  r.out[n] <=> LessThanHalfAngle(theta, half)

InitCam ==
    /\ kArr = [k \in KRefs |-> construct_K(1, 1, 1, 1)]
    /\ dArr = [d \in DRefs |-> <<0, 0, 0, 0>>]
    /\ qObj = [r \in QRefs |-> IF r \in PoseObjs THEN <<0, 0, 1, 0>> ELSE <<0, 0, 0, 1>>]
    /\ tArr = [r \in TRefs |-> IF r \in Poses THEN <<1, 0, 0>> ELSE <<0, 0, 0>>]
    /\ cams = << >>
    /\ pc = [c \in Cams |-> "idle"]
    /\ arg = [c \in Cams |-> 1]
    /\ lastSet = [c \in Cams |-> <<OwnQ(c), OwnT(c)>>]
    /\ call = [c \in Cams |-> None]

InitDepth == dcam = None /\ recon = None
InitBBox  == bboxIn = None /\ bboxRes = None
InitVis   == visCam = None /\ vis = None

Init == InitCam /\ InitDepth /\ InitBBox /\ InitVis

NextCam ==
    \/ \E c \in Cams, k \in KRefs, R \in RVals, t \in TVals, d \in DRefs :
          NewCamera(c, k, R, t, d)
    \/ \E c \in Cams, i \in Cams, e \in Cams : from_intrinsics_extrinsics(c, i, e)
    \/ \E c \in Cams, p \in PoseObjs : set_pose_140(c, p)
    \/ \E c \in Cams : set_pose_141(c)
    \/ CallerWrite

Next == NextCam

Spec == Init /\ [][Next]_vars

SpecDepth == Init /\ [][NextDepth]_vars

SpecBBox == Init /\ [][NextBBox]_vars

SpecVis == Init /\ [][NextVis]_vars
====
